---- MODULE Spec2Model ----
(***************************************************************************)
(* github-tag-action: run() of src/lib.ts over the CoreAdapter of          *)
(* src/core.ts.  Strings are sequences of one-character strings, so that   *)
(* replace, split, trim, slice and match are computed as JavaScript        *)
(* computes them.  One action per awaited operation of run(); an action    *)
(* runs the code from one await up to the next.                            *)
(***************************************************************************)
EXTENDS Integers, Sequences, FiniteSets, TLC

(* ------------------------------------------------------------------ *)
(* String literals of the source and of the modelled environment.     *)
(* ------------------------------------------------------------------ *)
E == <<>>
NL == <<"\n">>
S_true == <<"t","r","u","e">>
S_false == <<"f","a","l","s","e">>
S_zero == <<"0",".","0",".","0">>
S_major == <<"m","a","j","o","r">>
S_minor == <<"m","i","n","o","r">>
S_patch == <<"p","a","t","c","h">>
S_commit == <<"c","o","m","m","i","t">>
S_refsHeads == <<"r","e","f","s","/","h","e","a","d","s","/">>
S_refsTags == <<"r","e","f","s","/","t","a","g","s","/">>
S_conventionalcommits == <<"c","o","n","v","e","n","t","i","o","n","a","l","c","o","m","m","i","t","s">>
S_angular == <<"a","n","g","u","l","a","r">>
S_main == <<"m","a","i","n">>
S_featureX == <<"f","e","a","t","u","r","e","/","x">>
S_release1 == <<"r","e","l","e","a","s","e","/","1">>
S_releasePat == <<"r","e","l","e","a","s","e","/",".","*">>
S_tok == <<"t","o","k">>
S_notes == <<"n","o","t","e","s">>
S_v == <<"v">>
S_sha1 == <<"1","a","2","b","3","c","4","d","5","e">>
S_sha2 == <<"9","f","8","e","7","d","6","c","5","b">>
S_tagObj == <<"7","a","9","c","0","e","1","f">>
S_v123 == <<"v","1",".","2",".","3">>
S_1_10_0 == <<"1",".","1","0",".","0">>

(* failure messages *)
M_MissingRef == "Missing GITHUB_REF"
M_MissingSha == "Missing GITHUB_SHA"
M_NothingToBump == "Nothing to bump - not building release"
M_SemVerRejected == "SemVer inc rejected tag"
M_Classifier == "analyzeCommits failed"
M_Generator == "generateNotes failed"
M_GitHub == "GitHub client failed"
M_CreateTag == "createTag failed"
M_CreateRef == "createRef failed"

(* ------------------------------------------------------------------ *)
(* JavaScript string primitives.                                      *)
(* ------------------------------------------------------------------ *)
Drop(s, n) == SubSeq(s, n + 1, Len(s))
Take(s, n) == SubSeq(s, 1, IF n < Len(s) THEN n ELSE Len(s))

\* String.prototype.indexOf, 1-based; 0 when pat does not occur
IndexOf(s, pat) ==
  LET hits == {i \in 1..(Len(s) - Len(pat) + 1) : SubSeq(s, i, i + Len(pat) - 1) = pat}
  IN IF Len(pat) = 0 THEN 1
     ELSE IF hits = {} THEN 0
     ELSE CHOOSE i \in hits : \A j \in hits : i <= j

\* s.replace(pat, ""): removes the FIRST occurrence of the string pat, wherever it is
Replace(s, pat) ==
  LET i == IndexOf(s, pat)
  IN IF i = 0 THEN s ELSE SubSeq(s, 1, i - 1) \o Drop(s, i - 1 + Len(pat))

\* s.split(sep) for a non-empty separator string
RECURSIVE Split(_, _)
Split(s, sep) ==
  LET i == IndexOf(s, sep)
  IN IF i = 0 THEN <<s>>
     ELSE <<SubSeq(s, 1, i - 1)>> \o Split(Drop(s, i - 1 + Len(sep)), sep)

IsSpace(c) == c \in {" ", "\n", "\t", "\r"}

RECURSIVE TrimLeft(_)
TrimLeft(s) == IF Len(s) > 0 /\ IsSpace(s[1]) THEN TrimLeft(Tail(s)) ELSE s

RECURSIVE TrimRight(_)
TrimRight(s) ==
  IF Len(s) > 0 /\ IsSpace(s[Len(s)]) THEN TrimRight(SubSeq(s, 1, Len(s) - 1)) ELSE s

\* String.prototype.trim
Trim(s) == TrimRight(TrimLeft(s))

\* s.slice(0, n)
Slice0(s, n) == Take(s, n)

(* ------------------------------------------------------------------ *)
(* s.match(pattern) with a string pattern: the pattern is compiled as *)
(* a regular expression and searched unanchored.  Modelled for the    *)
(* pattern language  literal  .  x*  ^  $ .                           *)
(* ------------------------------------------------------------------ *)
CharMatches(pc_, c) == pc_ = "." \/ pc_ = c

RECURSIVE MatchHere(_, _)
MatchHere(re, text) ==
  IF Len(re) = 0 THEN TRUE
  ELSE IF Len(re) >= 2 /\ re[2] = "*"
    THEN \E k \in 0..Len(text) :
           /\ \A j \in 1..k : CharMatches(re[1], text[j])
           /\ MatchHere(Drop(re, 2), Drop(text, k))
  ELSE IF re[1] = "$" /\ Len(re) = 1 THEN Len(text) = 0
  ELSE IF Len(text) > 0 /\ CharMatches(re[1], text[1])
    THEN MatchHere(Tail(re), Tail(text))
  ELSE FALSE

Match(text, re) ==
  IF Len(re) > 0 /\ re[1] = "^" THEN MatchHere(Tail(re), text)
  ELSE \E k \in 0..Len(text) : MatchHere(re, Drop(text, k))

(* ------------------------------------------------------------------ *)
(* semver.inc(version, release) for the release types major, minor    *)
(* and patch: the version is trimmed and must read                    *)
(*   [v] major.minor.patch [-prerelease]                              *)
(* with numeric fields without leading zeros; null (here E) when the  *)
(* version does not parse.                                            *)
(* ------------------------------------------------------------------ *)
Digits == <<"0","1","2","3","4","5","6","7","8","9">>
IsDigit(c) == \E i \in 1..10 : Digits[i] = c
DigitVal(c) == (CHOOSE i \in 1..10 : Digits[i] = c) - 1
Letters == {"a","b","c","d","e","f","g","r","v","x","-"}
IsIdChar(c) == IsDigit(c) \/ c \in Letters

RECURSIVE StrToNum(_)
StrToNum(s) == IF Len(s) = 0 THEN 0
               ELSE 10 * StrToNum(SubSeq(s, 1, Len(s) - 1)) + DigitVal(s[Len(s)])

RECURSIVE NumToStr(_)
NumToStr(n) == IF n < 10 THEN <<Digits[n + 1]>>
               ELSE NumToStr(n \div 10) \o <<Digits[(n % 10) + 1]>>

\* NUMERICIDENTIFIER: 0|[1-9]\d*
IsNumericId(s) ==
  /\ Len(s) > 0
  /\ \A i \in 1..Len(s) : IsDigit(s[i])
  /\ (Len(s) > 1 => s[1] # "0")

\* PRERELEASEIDENTIFIER: numeric without leading zero, or alphanumeric/hyphen
IsPrereleaseId(s) ==
  /\ Len(s) > 0
  /\ \A i \in 1..Len(s) : IsIdChar(s[i])
  /\ ((\A i \in 1..Len(s) : IsDigit(s[i])) => IsNumericId(s))

NoVersion == [ok |-> FALSE, major |-> 0, minor |-> 0, patch |-> 0, pre |-> FALSE]

SemVerParse(version) ==
  LET t == Trim(version)
      body == IF Len(t) > 0 /\ t[1] = "v" THEN Tail(t) ELSE t
      dash == IndexOf(body, <<"-">>)
      main == IF dash = 0 THEN body ELSE SubSeq(body, 1, dash - 1)
      pre == IF dash = 0 THEN E ELSE Drop(body, dash)
      parts == Split(main, <<".">>)
      preIds == Split(pre, <<".">>)
  IN IF /\ Len(parts) = 3
        /\ \A i \in 1..3 : IsNumericId(parts[i])
        /\ (dash # 0 => \A i \in 1..Len(preIds) : IsPrereleaseId(preIds[i]))
     THEN [ok |-> TRUE, major |-> StrToNum(parts[1]), minor |-> StrToNum(parts[2]),
           patch |-> StrToNum(parts[3]), pre |-> dash # 0]
     ELSE NoVersion

Format(ma, mi, pa) == NumToStr(ma) \o <<".">> \o NumToStr(mi) \o <<".">> \o NumToStr(pa)

SemVerInc(version, release) ==
  LET v == SemVerParse(version)
  IN IF ~v.ok THEN E
     ELSE IF release = S_major
       THEN Format(IF v.minor # 0 \/ v.patch # 0 \/ ~v.pre THEN v.major + 1 ELSE v.major, 0, 0)
     ELSE IF release = S_minor
       THEN Format(v.major, IF v.patch # 0 \/ ~v.pre THEN v.minor + 1 ELSE v.minor, 0)
     ELSE IF release = S_patch
       THEN Format(v.major, v.minor, IF ~v.pre THEN v.patch + 1 ELSE v.patch)
     ELSE E

(* ------------------------------------------------------------------ *)
(* The environment the run starts in, and what the external commands  *)
(* and collaborators can answer.  An option is <<>> (the key is not   *)
(* set) or <<value>>.                                                 *)
(* ------------------------------------------------------------------ *)
Opt(S) == {<<>>} \cup {<<x>> : x \in S}

InputKeys == <<"default_bump", "message_parser_preset", "tag_prefix",
               "release_branches", "create_annotated_tag", "dry_run">>
OutputKeys == {"previous_tag", "new_version", "new_tag", "changelog", "dry_run"}

DefaultBumpIn == Opt({E, S_minor})
PresetIn == Opt({E, S_angular})
TagPrefixIn == Opt({S_v, <<"0">>})
ReleaseBranchesIn == Opt({S_main \o <<",">> \o S_releasePat, <<"^">> \o S_main \o <<"$">>})
AnnotatedIn == {<<S_true>>, <<S_false>>}
DryRunIn == {<<S_true>>, <<S_false>>}
TokenIn == Opt({E, S_tok})
RefIn == Opt({E, S_refsHeads \o S_main, S_refsHeads \o S_featureX, S_refsHeads \o S_release1,
            S_refsTags \o S_v123})
ShaIn == Opt({E, S_sha1})

ShallowOut == {S_true \o NL, S_false \o NL}
TagListOut == {E, S_v123 \o NL}
RevListOut == {S_sha1 \o NL, S_sha2 \o NL}
DescribeOut == {E, S_v123 \o NL, S_1_10_0 \o NL}
ClassifierOut == {E, S_patch, S_minor, S_major}
NotesOut == {S_notes}
TagObjectOut == {S_tagObj}

\* lib.ts:8
SEPARATOR == [i \in 1..46 |-> "="]

\* the longest commit log the version-control gateway answers with
MaxCommits == 1

Messages == <<<<"f","i","x",":"," ","a">>, <<"f","e","a","t",":"," ","b">>,
              <<"d","o","c","s">>>>

\* git log --pretty=format:'%s%n%b<SEPARATOR>': one record per commit, newline between
RECURSIVE RenderLog(_)
RenderLog(msgs) ==
  IF Len(msgs) = 0 THEN E
  ELSE <<"'">> \o msgs[1] \o NL \o SEPARATOR \o <<"'">>
       \o (IF Len(msgs) > 1 THEN NL ELSE E) \o RenderLog(Tail(msgs))

Histories == {[i \in 1..n |-> Messages[((i - 1) % Len(Messages)) + 1]] : n \in 0..MaxCommits}

LogOut == {RenderLog(h) : h \in Histories}

\* commit messages that exercise the parsing of lib.ts:116-119: plain, with a
\* quote or a blank inside, wrapped in quotes, ending with a quote, starting
\* with a blank, and containing the separator
MaxParseCommits == 2

ParseMessages == {<<"f","i","x">>, <<"i","t","'","s">>, <<"a"," ","b">>,
                  <<"'","q","'">>, <<"x","'">>, <<" ","x">>,
                  <<"a">> \o SEPARATOR \o <<"b">>}

RECURSIVE SeqsUpTo(_, _)
SeqsUpTo(S, n) ==
  IF n = 0 THEN {<<>>}
  ELSE SeqsUpTo(S, n - 1) \cup {Append(h, m) : h \in SeqsUpTo(S, n - 1), m \in S}

ParseHistories == SeqsUpTo(ParseMessages, MaxParseCommits)

(* ------------------------------------------------------------------ *)
(* State.                                                             *)
(* ------------------------------------------------------------------ *)
VARIABLES
  pc,        \* position in run(): the await the run is suspended at
  env,       \* process.env: a function from the keys that are set to their values
  loc,       \* the local variables of run()
  ops,       \* the external operations invoked so far, in order
  outputs,   \* the setOutput calls made so far, in order
  exitCode,  \* -1 while the process runs, then its exit status
  failMsg,   \* the message given to setFailed, "" when none
  thrown,    \* the message of the error thrown inside the try block, "" when none
  cfg,       \* the environment the CI job starts every run with
  history,   \* the commit messages `git log` reports, oldest last
  created,   \* the references createRef has created on the remote, in order
  run,       \* 1 for the first run of the job, 2 for its re-run
  first      \* what the first run saw and did, once it is over

vars == <<pc, env, loc, ops, outputs, exitCode, failMsg, thrown,
          cfg, history, created, run, first>>

\* what a single run never changes
job == <<cfg, history, run, first>>

Op(name, args) == [op |-> name, args |-> args]
Out(key, value) == [key |-> key, value |-> value]

MkEnv(c) == [k \in {k \in DOMAIN c : c[k] # <<>>} |-> c[k][1]]

\* CoreAdapter.getInput: throws when the stored value is the empty string
GetInputThrows(e, key) == key \in DOMAIN e /\ e[key] = E
GetInput(e, key) == IF key \in DOMAIN e THEN e[key] ELSE E

\* process.env[key] = value
SetEnv(e, key, value) == [k \in DOMAIN e \cup {key} |-> IF k = key THEN value ELSE e[k]]

NoInputMsg(key) ==
  CASE key = "default_bump" -> "No default_bump in env."
    [] key = "message_parser_preset" -> "No message_parser_preset in env."
    [] key = "tag_prefix" -> "No tag_prefix in env."
    [] key = "release_branches" -> "No release_branches in env."
    [] key = "create_annotated_tag" -> "No create_annotated_tag in env."
    [] key = "dry_run" -> "No dry_run in env."
    [] key = "github_token" -> "No github_token in env."

Loc0 == [defaultBump |-> E, messageParserPreset |-> E, tagPrefix |-> E,
         releaseBranches |-> E, createAnnotatedTag |-> E, dryRun |-> E,
         GITHUB_REF |-> E, GITHUB_SHA |-> E, preRelease |-> FALSE, shallow |-> E,
         hasTag |-> FALSE, previousTagSha |-> E, tag |-> E, logs |-> E,
         commits |-> <<>>, classified |-> E, bump |-> E, rawVersion |-> E,
         incResult |-> E, newVersion |-> E, newTag |-> E,
         tagAlreadyExists |-> FALSE, tagCreateSha |-> E]

NoFirst == [loc |-> Loc0, thrown |-> "", created |-> <<>>]

(* ------------------------------------------------------------------ *)
(* What the gateways answer.  The first run of a job may meet any     *)
(* repository.  Its re-run meets the same repository, head commit and *)
(* commits, with the references the first run created fetched:        *)
(* version control, classifier and generator answer as they did, but  *)
(* for the created tags, which now exist and point at the head commit.*)
(* ------------------------------------------------------------------ *)
RECURSIVE TagLines(_)
TagLines(refs) ==
  IF Len(refs) = 0 THEN E
  ELSE Drop(refs[1], Len(S_refsTags)) \o NL \o TagLines(Tail(refs))

\* lib.ts:80: git tag
TagListAnswers ==
  IF run = 1 THEN TagListOut
  ELSE {(IF first.loc.hasTag THEN S_v123 \o NL ELSE E) \o TagLines(created)}

\* lib.ts:86-90: the newest tagged commit is the one the first run found or,
\* once a created tag points at it, the head commit
RevListAnswers ==
  LET seen == IF first.loc.hasTag THEN {first.loc.previousTagSha \o NL} ELSE {}
      head == IF created # <<>> THEN {loc.GITHUB_SHA \o NL} ELSE {}
  IN IF run = 1 \/ seen \cup head = {} THEN RevListOut ELSE seen \cup head

\* lib.ts:91: git describe --tags
DescribeAnswers ==
  IF run = 1 THEN DescribeOut
  ELSE IF first.loc.hasTag /\ loc.previousTagSha = first.loc.previousTagSha
    THEN {first.loc.tag \o NL}
  ELSE IF created # <<>> THEN {TagLines(<<created[Len(created)]>>)}
  ELSE DescribeOut

\* lib.ts:123-126: analyzeCommits
ClassifierAnswers == IF run = 1 THEN ClassifierOut ELSE {first.loc.classified}
ClassifierMayThrow == run = 1 \/ first.thrown = M_Classifier
ClassifierMayReturn == run = 1 \/ first.thrown # M_Classifier

\* lib.ts:158-169: generateNotes
GeneratorMayThrow == run = 1 \/ first.thrown = M_Generator
GeneratorMayReturn == run = 1 \/ first.thrown # M_Generator

\* lib.ts:180-183: git tag -l <newTag>
TagCheckAnswers(newTag) ==
  IF run = 1 THEN {E, newTag \o NL}
  ELSE IF first.loc.tagAlreadyExists
          \/ \E i \in 1..Len(created) : created[i] = S_refsTags \o newTag
    THEN {newTag \o NL}
  ELSE {E}

\* a process that has just started the action in the job's environment
StartOfRun ==
  /\ env = cfg
  /\ pc = "start"
  /\ loc = Loc0
  /\ ops = <<>>
  /\ outputs = <<>>
  /\ exitCode = -1
  /\ failMsg = ""
  /\ thrown = ""

\* the first run of a job on a remote on which it has created nothing yet
Fresh ==
  /\ StartOfRun
  /\ created = <<>>
  /\ run = 1
  /\ first = NoFirst

\* the configurations of a job: every combination of the other inputs without a
\* message_parser_preset, and a configured or blank preset with the common ones
Init ==
  /\ \E db \in DefaultBumpIn, mp \in PresetIn, tp \in TagPrefixIn,
        rb \in ReleaseBranchesIn, an \in AnnotatedIn, dr \in DryRunIn,
        tk \in TokenIn, ref \in RefIn, sha \in ShaIn :
       /\ mp # <<>> =>
            /\ db # <<E>> /\ tp = <<S_v>> /\ rb # <<>> /\ dr = <<S_false>>
            /\ tk = <<S_tok>> /\ sha = <<S_sha1>>
            /\ ref \in {<<S_refsHeads \o S_main>>, <<S_refsHeads \o S_featureX>>}
       /\ cfg = MkEnv([default_bump |-> db, message_parser_preset |-> mp,
                    tag_prefix |-> tp, release_branches |-> rb,
                    create_annotated_tag |-> an, dry_run |-> dr,
                    github_token |-> tk, GITHUB_REF |-> ref, GITHUB_SHA |-> sha])
  /\ history \in Histories
  /\ Fresh

(* ------------------------------------------------------------------ *)
(* CoreAdapter.setFailed, setOutput and the normal return of run().   *)
(* ------------------------------------------------------------------ *)
SetFailed_NoExit(msg) ==
  /\ failMsg' = msg
  /\ exitCode' = 0
  /\ pc' = "done"
  /\ thrown' = thrown

\* core.setFailed(msg): console.log and process.exit(1); the run ends there
SetFailed(msg) ==
  /\ failMsg' = msg
  /\ exitCode' = 1
  /\ pc' = "exited"
  /\ thrown' = thrown

Throw_Continues(msg) ==
  /\ thrown' = msg
  /\ failMsg' = msg
  /\ exitCode' = exitCode
  /\ pc' = "fetchTagsAgain"

\* lib.ts:230-232: an error thrown inside the try block reaches the catch block,
\* which reports its message with setFailed
Throw(msg) ==
  /\ thrown' = msg
  /\ failMsg' = msg
  /\ exitCode' = 1
  /\ pc' = "exited"

\* run() returns without failure: the process ends with status 0
Return ==
  /\ pc' = "done"
  /\ exitCode' = 0
  /\ failMsg' = failMsg
  /\ thrown' = thrown

Goto(l) ==
  /\ pc' = l
  /\ exitCode' = exitCode
  /\ failMsg' = failMsg
  /\ thrown' = thrown

\* core.setOutput for each of the writes ws, in order
RECURSIVE WriteAll(_, _)
WriteAll(e, ws) ==
  IF Len(ws) = 0 THEN e ELSE WriteAll(SetEnv(e, ws[1].key, ws[1].value), Tail(ws))

SetOutputs(ws) ==
  /\ env' = WriteAll(env, ws)
  /\ outputs' = outputs \o ws

Exec(op) == ops' = Append(ops, op)

Jump(l) == IF l = "done" THEN Return ELSE Goto(l)

(* ------------------------------------------------------------------ *)
(* Decisions of run().                                                *)
(* ------------------------------------------------------------------ *)
PreRelease_WholeRef(releaseBranches, ref) ==
  LET branches == Split(releaseBranches, <<",">>)
  IN \A i \in 1..Len(branches) : ~Match(ref, branches[i])

\* lib.ts:65-67
PreRelease(releaseBranches, ref) ==
  LET branches == Split(releaseBranches, <<",">>)
  IN \A i \in 1..Len(branches) : ~Match(Replace(ref, S_refsHeads), branches[i])

Missing_Never(value) == FALSE

\* lib.ts:55 and lib.ts:60: !GITHUB_REF, !GITHUB_SHA
Missing(value) == value = E

IsShallowAnswer_Always(shallow) == TRUE

\* lib.ts:73
IsShallowAnswer(shallow) == Match(shallow, S_true)

\* lib.ts:80
HasTag(stdout) == Trim(stdout) # E

NoNewCommits_ComparesTagName(previousTagSha, sha) == loc.tag = sha

\* lib.ts:98
NoNewCommits(previousTagSha, sha) == previousTagSha = sha

\* lib.ts:118: x.trim().replace(/(^['\s]+)|(['\s]+$)/g, "")
IsQuoteOrSpace(c) == c = "'" \/ IsSpace(c)

RECURSIVE StripLeft(_)
StripLeft(s) == IF Len(s) > 0 /\ IsQuoteOrSpace(s[1]) THEN StripLeft(Tail(s)) ELSE s

RECURSIVE StripRight(_)
StripRight(s) ==
  IF Len(s) > 0 /\ IsQuoteOrSpace(s[Len(s)]) THEN StripRight(SubSeq(s, 1, Len(s) - 1)) ELSE s

CleanMessage_TrimOnly(x) == Trim(x)

CleanMessage(x) == StripRight(StripLeft(Trim(x)))

\* lib.ts:116-119
ParseCommits(logs) ==
  LET cleaned == [i \in 1..Len(Split(logs, SEPARATOR)) |-> CleanMessage(Split(logs, SEPARATOR)[i])]
  IN SelectSeq(cleaned, LAMBDA m : m # E)

Preset_NoDefault(messageParserPreset) == messageParserPreset

\* lib.ts:124
Preset(messageParserPreset) ==
  IF messageParserPreset # E THEN messageParserPreset ELSE S_conventionalcommits

EffectiveBump_DefaultFirst(classified, defaultBump) ==
  IF defaultBump # E THEN defaultBump ELSE classified

\* lib.ts:129
EffectiveBump(classified, defaultBump) ==
  IF classified # E THEN classified ELSE defaultBump

\* lib.ts:138
RawVersion(tag, tagPrefix) == Replace(tag, tagPrefix)

\* lib.ts:148-150
NewVersion(incResult, preRelease, sha) ==
  incResult \o (IF preRelease THEN <<"-">> \o Slice0(sha, 7) ELSE E)

\* lib.ts:151
NewTag(tagPrefix, newVersion) == tagPrefix \o newVersion

\* lib.ts:173-178
AfterChangelog(preRelease) == IF preRelease THEN "done" ELSE "tagExists"

AfterTagCheck_IgnoresDryRun(tagAlreadyExists, dryRun) ==
  IF tagAlreadyExists THEN "done" ELSE "publish"

AfterTagCheck_IgnoresExisting(tagAlreadyExists, dryRun) ==
  IF dryRun = S_true THEN "dryRun" ELSE "publish"

AfterTagCheck_DryRunFirst(tagAlreadyExists, dryRun) ==
  IF dryRun = S_true THEN "dryRun"
  ELSE IF tagAlreadyExists THEN "done"
  ELSE "publish"

AfterTagCheck_DryRunInverted(tagAlreadyExists, dryRun) ==
  IF tagAlreadyExists THEN "done"
  ELSE IF dryRun # S_true THEN "dryRun"
  ELSE "publish"

\* lib.ts:184-194
AfterTagCheck(tagAlreadyExists, dryRun) ==
  IF tagAlreadyExists THEN "done"
  ELSE IF dryRun = S_true THEN "dryRun"
  ELSE "publish"

\* lib.ts:198
RemoteEntry(createAnnotatedTag) ==
  IF createAnnotatedTag = S_true THEN "createTag" ELSE "createRef"

\* lib.ts:201-207
CreateTagArgs(newTag, sha) == <<newTag, newTag, sha, S_commit>>

AnnotatedRefArgs_HeadCommit(newTag, tagCreateSha) ==
  <<S_refsTags \o newTag, loc.GITHUB_SHA>>

\* lib.ts:211-215
AnnotatedRefArgs(newTag, tagCreateSha) == <<S_refsTags \o newTag, tagCreateSha>>

\* lib.ts:221-225
LightRefArgs(newTag, sha) == <<S_refsTags \o newTag, sha>>

AfterLightRef_Retry == "createRef"

\* lib.ts:216 and lib.ts:227-229: where the run goes once the reference exists
AfterAnnotatedRef == "done"
AfterLightRef == "fetchTagsAgain"

PreviousTagOnNoTags_Missing(tag) == <<>>

\* lib.ts:100 and lib.ts:110: the previous_tag writes of run()
PreviousTagOnSkip(tag) == <<Out("previous_tag", tag)>>
PreviousTagOnNoTags(tag) == <<Out("previous_tag", tag)>>

ChangelogWrites_Missing(changelog) == <<>>

\* lib.ts:171
ChangelogWrites(changelog) == <<Out("changelog", changelog)>>

(* ------------------------------------------------------------------ *)
(* run(), one action per awaited operation.                           *)
(* ------------------------------------------------------------------ *)
Min(S) == CHOOSE i \in S : \A j \in S : i <= j

\* lib.ts:44-67: inputs, required environment, branch classification
Start ==
  /\ pc = "start"
  /\ UNCHANGED <<job, created>>
  /\ UNCHANGED <<env, ops, outputs>>
  /\ LET blank == {i \in 1..Len(InputKeys) : GetInputThrows(env, InputKeys[i])}
         ref == GetInput(env, "GITHUB_REF")
         sha == GetInput(env, "GITHUB_SHA")
     IN IF blank # {}
          THEN Throw(NoInputMsg(InputKeys[Min(blank)])) /\ UNCHANGED loc
        ELSE IF Missing(ref)
          THEN SetFailed(M_MissingRef) /\ UNCHANGED loc
        ELSE IF Missing(sha)
          THEN SetFailed(M_MissingSha) /\ UNCHANGED loc
        ELSE /\ loc' = [loc EXCEPT
                    !.defaultBump = GetInput(env, "default_bump"),
                    !.messageParserPreset = GetInput(env, "message_parser_preset"),
                    !.tagPrefix = GetInput(env, "tag_prefix"),
                    !.releaseBranches = GetInput(env, "release_branches"),
                    !.createAnnotatedTag = GetInput(env, "create_annotated_tag"),
                    !.dryRun = GetInput(env, "dry_run"),
                    !.GITHUB_REF = ref,
                    !.GITHUB_SHA = sha,
                    !.preRelease = PreRelease(GetInput(env, "release_branches"), ref)]
             /\ Goto("isShallow")

\* lib.ts:70-73
IsShallow ==
  /\ pc = "isShallow"
  /\ UNCHANGED <<job, created>>
  /\ \E out \in ShallowOut :
       /\ Exec(Op("git rev-parse --is-shallow-repository", <<>>))
       /\ loc' = [loc EXCEPT !.shallow = Trim(out)]
       /\ Goto(IF IsShallowAnswer(Trim(out)) THEN "unshallow" ELSE "fetchTags")
  /\ UNCHANGED <<env, outputs>>

\* lib.ts:74
Unshallow ==
  /\ pc = "unshallow"
  /\ UNCHANGED <<job, created>>
  /\ Exec(Op("git fetch --unshallow", <<>>))
  /\ Goto("fetchTags")
  /\ UNCHANGED <<env, loc, outputs>>

\* lib.ts:78
FetchTags ==
  /\ pc = "fetchTags"
  /\ UNCHANGED <<job, created>>
  /\ Exec(Op("git fetch --tags", <<>>))
  /\ Goto("listTags")
  /\ UNCHANGED <<env, loc, outputs>>

\* lib.ts:80-84
ListTags ==
  /\ pc = "listTags"
  /\ UNCHANGED <<job, created>>
  /\ \E out \in TagListAnswers :
       /\ Exec(Op("git tag", <<>>))
       /\ loc' = [loc EXCEPT !.hasTag = HasTag(out)]
       /\ Goto(IF HasTag(out) THEN "pwd" ELSE "logAll")
  /\ UNCHANGED <<env, outputs>>

\* lib.ts:85
Pwd ==
  /\ pc = "pwd"
  /\ UNCHANGED <<job, created>>
  /\ Exec(Op("pwd", <<>>))
  /\ Goto("revList")
  /\ UNCHANGED <<env, loc, outputs>>

\* lib.ts:86-90
RevList ==
  /\ pc = "revList"
  /\ UNCHANGED <<job, created>>
  /\ \E out \in RevListAnswers :
       /\ Exec(Op("git rev-list --tags", <<loc.tagPrefix>>))
       /\ loc' = [loc EXCEPT !.previousTagSha = Trim(out)]
  /\ Goto("describe")
  /\ UNCHANGED <<env, outputs>>

\* lib.ts:91
Describe ==
  /\ pc = "describe"
  /\ UNCHANGED <<job, created>>
  /\ \E out \in DescribeAnswers :
       /\ Exec(Op("git describe --tags", <<loc.previousTagSha>>))
       /\ loc' = [loc EXCEPT !.tag = Trim(out)]
  /\ Goto("logRange")
  /\ UNCHANGED <<env, outputs>>

\* lib.ts:92-102
LogRange ==
  /\ pc = "logRange"
  /\ UNCHANGED <<job, created>>
  /\ LET out == RenderLog(history)
     IN /\ Exec(Op("git log range", <<loc.tag>>))
        /\ loc' = [loc EXCEPT !.logs = Trim(out)]
  /\ IF NoNewCommits(loc.previousTagSha, loc.GITHUB_SHA)
       THEN SetOutputs(PreviousTagOnSkip(loc.tag)) /\ Return
       ELSE UNCHANGED <<env, outputs>> /\ Goto("analyze")

\* lib.ts:104-111
LogAll ==
  /\ pc = "logAll"
  /\ UNCHANGED <<job, created>>
  /\ LET out == RenderLog(history)
     IN /\ Exec(Op("git log", <<>>))
        /\ loc' = [loc EXCEPT !.tag = S_zero, !.logs = Trim(out)]
  /\ SetOutputs(PreviousTagOnNoTags(S_zero))
  /\ Goto("analyze")

\* lib.ts:113-156: commit parsing, classifier, bump resolution, version and tag
Analyze ==
  /\ pc = "analyze"
  /\ UNCHANGED <<job, created>>
  /\ LET commits == ParseCommits(loc.logs) IN
     /\ Exec(Op("analyzeCommits", <<Preset(loc.messageParserPreset)>>))
     /\ \/ /\ ClassifierMayThrow
           /\ Throw(M_Classifier)
           /\ loc' = [loc EXCEPT !.commits = commits]
           /\ UNCHANGED <<env, outputs>>
        \/ \E classified \in ClassifierAnswers :
             ClassifierMayReturn /\
             LET bump == EffectiveBump(classified, loc.defaultBump)
                 rawVersion == RawVersion(loc.tag, loc.tagPrefix)
                 incResult == SemVerInc(rawVersion, bump)
                 newVersion == NewVersion(incResult, loc.preRelease, loc.GITHUB_SHA)
                 newTag == NewTag(loc.tagPrefix, newVersion)
                 l1 == [loc EXCEPT !.commits = commits, !.classified = classified,
                                   !.bump = bump]
                 l2 == [l1 EXCEPT !.rawVersion = rawVersion, !.incResult = incResult]
             IN IF bump = E
                  THEN /\ SetFailed(M_NothingToBump)
                       /\ loc' = l1
                       /\ UNCHANGED <<env, outputs>>
                ELSE IF incResult = E
                  THEN /\ SetFailed(M_SemVerRejected)
                       /\ loc' = l2
                       /\ UNCHANGED <<env, outputs>>
                ELSE /\ loc' = [l2 EXCEPT !.newVersion = newVersion, !.newTag = newTag]
                     /\ SetOutputs(<<Out("new_version", newVersion), Out("new_tag", newTag)>>)
                     /\ Goto("generateNotes")

\* lib.ts:158-178
GenerateNotes ==
  /\ pc = "generateNotes"
  /\ UNCHANGED <<job, created>>
  /\ Exec(Op("generateNotes", <<loc.tag, loc.newTag, loc.newVersion>>))
  /\ UNCHANGED loc
  /\ \/ GeneratorMayThrow /\ Throw(M_Generator) /\ UNCHANGED <<env, outputs>>
     \/ \E changelog \in NotesOut :
          /\ GeneratorMayReturn
          /\ SetOutputs(ChangelogWrites(changelog))
          /\ Jump(AfterChangelog(loc.preRelease))

\* lib.ts:180-196
TagExists ==
  /\ pc = "tagExists"
  /\ UNCHANGED <<job, created>>
  /\ \E out \in TagCheckAnswers(loc.newTag) :
       LET tagAlreadyExists == Trim(out) # E
           next == AfterTagCheck(tagAlreadyExists, loc.dryRun)
           token == GetInput(env, "github_token")
       IN /\ Exec(Op("git tag -l", <<loc.newTag>>))
          /\ loc' = [loc EXCEPT !.tagAlreadyExists = tagAlreadyExists]
          /\ IF next = "done"
               THEN Return /\ UNCHANGED <<env, outputs>>
             ELSE IF next = "dryRun"
               THEN SetOutputs(<<Out("dry_run", S_true)>>) /\ Return
             ELSE IF GetInputThrows(env, "github_token")
               THEN Throw(NoInputMsg("github_token")) /\ UNCHANGED <<env, outputs>>
             ELSE /\ UNCHANGED <<env, outputs>>
                  /\ \/ Goto(RemoteEntry(loc.createAnnotatedTag))
                     \/ token = E /\ Throw(M_GitHub)

\* lib.ts:201-209
CreateTag ==
  /\ pc = "createTag"
  /\ UNCHANGED <<job, created>>
  /\ Exec(Op("createTag", CreateTagArgs(loc.newTag, loc.GITHUB_SHA)))
  /\ UNCHANGED <<env, outputs>>
  /\ \/ Throw(M_CreateTag) /\ UNCHANGED loc
     \/ \E sha \in TagObjectOut :
          /\ loc' = [loc EXCEPT !.tagCreateSha = sha]
          /\ Goto("createRefAnnotated")

\* lib.ts:211-216
CreateRefAnnotated ==
  /\ pc = "createRefAnnotated"
  /\ UNCHANGED job
  /\ Exec(Op("createRef", AnnotatedRefArgs(loc.newTag, loc.tagCreateSha)))
  /\ UNCHANGED <<env, loc, outputs>>
  /\ \/ Throw(M_CreateRef) /\ UNCHANGED created
     \/ /\ created' = Append(created, AnnotatedRefArgs(loc.newTag, loc.tagCreateSha)[1])
        /\ Jump(AfterAnnotatedRef)

\* lib.ts:221-225
CreateRef ==
  /\ pc = "createRef"
  /\ UNCHANGED job
  /\ Exec(Op("createRef", LightRefArgs(loc.newTag, loc.GITHUB_SHA)))
  /\ UNCHANGED <<env, loc, outputs>>
  /\ \/ Throw(M_CreateRef) /\ UNCHANGED created
     \/ /\ created' = Append(created, LightRefArgs(loc.newTag, loc.GITHUB_SHA)[1])
        /\ Jump(AfterLightRef)

\* lib.ts:227-229 and the end of run()
FetchTagsAgain ==
  /\ pc = "fetchTagsAgain"
  /\ UNCHANGED <<job, created>>
  /\ Exec(Op("git fetch --tags", <<>>))
  /\ Return
  /\ UNCHANGED <<env, loc, outputs>>

Next ==
  \/ Start
  \/ IsShallow
  \/ Unshallow
  \/ FetchTags
  \/ ListTags
  \/ Pwd
  \/ RevList
  \/ Describe
  \/ LogRange
  \/ LogAll
  \/ Analyze
  \/ GenerateNotes
  \/ TagExists
  \/ CreateTag
  \/ CreateRefAnnotated
  \/ CreateRef
  \/ FetchTagsAgain

Spec == Init /\ [][Next]_vars

\* the CI job is triggered again for the same configuration and head commit,
\* once, after the first run is over
Rerun ==
  /\ pc \in {"done", "exited"}
  /\ run = 1
  /\ run' = 2
  /\ first' = [loc |-> loc, thrown |-> thrown, created |-> created]
  /\ env' = cfg
  /\ pc' = "start"
  /\ loc' = Loc0
  /\ ops' = <<>>
  /\ outputs' = <<>>
  /\ exitCode' = -1
  /\ failMsg' = ""
  /\ thrown' = ""
  /\ UNCHANGED <<cfg, history, created>>

NextRerun ==
  \/ Next
  \/ Rerun

InitRerun ==
  /\ \E db \in Opt({S_minor}), tp \in Opt({S_v}), an \in AnnotatedIn, dr \in DryRunIn,
        ref \in {<<S_refsHeads \o S_main>>, <<S_refsHeads \o S_featureX>>} :
       cfg = MkEnv([default_bump |-> db, message_parser_preset |-> <<>>,
                    tag_prefix |-> tp, release_branches |-> <<S_main \o <<",">> \o S_releasePat>>,
                    create_annotated_tag |-> an, dry_run |-> dr,
                    github_token |-> <<S_tok>>, GITHUB_REF |-> ref,
                    GITHUB_SHA |-> <<S_sha1>>])
  /\ history \in Histories
  /\ Fresh

SpecRerun == InitRerun /\ [][NextRerun]_vars

\* runs whose every awaited operation returns (a run that can take a step takes
\* one), over the configurations that reach each way a run can end; run() has no
\* loop over the commits, so a log of no or one commit stands for the longer ones
InitFair ==
  /\ \E db \in {<<>>}, an \in AnnotatedIn, dr \in DryRunIn,
        tk \in {<<S_tok>>}, sha \in {<<S_sha1>>},
        ref \in Opt({S_refsHeads \o S_main, S_refsHeads \o S_featureX}) :
       cfg = MkEnv([default_bump |-> db, message_parser_preset |-> <<>>,
                    tag_prefix |-> <<S_v>>, release_branches |-> <<S_main \o <<",">> \o S_releasePat>>,
                    create_annotated_tag |-> an, dry_run |-> dr,
                    github_token |-> tk, GITHUB_REF |-> ref, GITHUB_SHA |-> sha])
  /\ history \in {<<>>, <<Messages[1]>>}
  /\ Fresh

FairSpec == InitFair /\ [][Next]_vars /\ WF_vars(Next)

\* runs of one release-branch configuration over the histories that exercise
\* the commit log parsing
InitParse ==
  /\ \E an \in AnnotatedIn :
       cfg = MkEnv([default_bump |-> <<S_minor>>, message_parser_preset |-> <<>>,
                    tag_prefix |-> <<S_v>>, release_branches |-> <<>>,
                    create_annotated_tag |-> an, dry_run |-> <<S_false>>,
                    github_token |-> <<S_tok>>, GITHUB_REF |-> <<S_refsHeads \o S_main>>,
                    GITHUB_SHA |-> <<S_sha1>>])
  /\ history \in ParseHistories
  /\ Fresh

SpecParse == InitParse /\ [][Next]_vars

(* ------------------------------------------------------------------ *)
(* Observations on a run.                                             *)
(* ------------------------------------------------------------------ *)
IsRemote(o) == o.op \in {"createTag", "createRef"}
RemoteCalls == SelectSeq(ops, IsRemote)
Invoked(name) == \E i \in 1..Len(ops) : ops[i].op = name
Count(name) == Cardinality({i \in 1..Len(ops) : ops[i].op = name})
Written(key) == \E i \in 1..Len(outputs) : outputs[i].key = key
WrittenWith(key, value) == \E i \in 1..Len(outputs) : outputs[i] = Out(key, value)
Terminated == pc \in {"done", "exited"}
Succeeded == pc = "done" /\ exitCode = 0 /\ failMsg = ""

(* ------------------------------------------------------------------ *)
(* C1: createTag and createRef are invoked only after the three gates *)
(* passed in order: the branch is not pre-release, the tag-existence  *)
(* check ran and found no tag named like the new tag, and dry_run is  *)
(* not "true".  A dry run and a pre-release run never invoke them.    *)
(* ------------------------------------------------------------------ *)
C1_RemoteOnlyAfterGates ==
  /\ RemoteCalls # <<>> =>
       /\ ~loc.preRelease
       /\ Invoked("git tag -l") /\ ~loc.tagAlreadyExists
       /\ GetInput(env, "dry_run") # S_true
  /\ \A i, j \in 1..Len(ops) :
       IsRemote(ops[i]) /\ ops[j].op = "git tag -l" => j < i
  /\ Invoked("git tag -l") => ~loc.preRelease
  /\ Written("dry_run") => Invoked("git tag -l") /\ ~loc.tagAlreadyExists
  /\ GetInput(env, "dry_run") = S_true => RemoteCalls = <<>>
  /\ loc.preRelease => RemoteCalls = <<>>

C1_Witness ==
  /\ pc = "createRef"
  /\ ~loc.preRelease /\ ~loc.tagAlreadyExists /\ loc.dryRun = S_false
  /\ Invoked("git tag -l")

(* ------------------------------------------------------------------ *)
(* C2: a run that passed the gates and ended without failure made, in *)
(* annotated mode, exactly createTag(tag = message = new tag, object  *)
(* = head commit, type = commit) then createRef(refs/tags/<new tag>,  *)
(* the identifier createTag returned); otherwise exactly one          *)
(* createRef(refs/tags/<new tag>, head commit).                       *)
(* ------------------------------------------------------------------ *)
GatesPassed ==
  /\ Invoked("git tag -l")
  /\ ~loc.preRelease /\ ~loc.tagAlreadyExists /\ loc.dryRun # S_true

C2_RemoteCallShape ==
  Succeeded /\ GatesPassed =>
    IF GetInput(env, "create_annotated_tag") = S_true
      THEN /\ Len(RemoteCalls) = 2
           /\ RemoteCalls[1] = Op("createTag",
                <<loc.newTag, loc.newTag, GetInput(env, "GITHUB_SHA"), S_commit>>)
           /\ loc.tagCreateSha \in TagObjectOut
           /\ RemoteCalls[2] = Op("createRef",
                <<S_refsTags \o loc.newTag, loc.tagCreateSha>>)
      ELSE RemoteCalls = <<Op("createRef",
                <<S_refsTags \o loc.newTag, GetInput(env, "GITHUB_SHA")>>)>>

C2_Witness ==
  /\ Succeeded /\ GatesPassed
  /\ GetInput(env, "create_annotated_tag") = S_true
  /\ Len(RemoteCalls) = 2

(* ------------------------------------------------------------------ *)
(* C3: when tags exist and the most recent tag's commit is the head   *)
(* commit, the run writes previous_tag = that tag and nothing else,   *)
(* never invokes the classifier, the generator or the remote gateway, *)
(* and ends successfully.                                             *)
(* ------------------------------------------------------------------ *)
OnHeadTag == loc.hasTag /\ loc.previousTagSha = GetInput(env, "GITHUB_SHA")

C3_NoNewCommitsShortCircuit ==
  OnHeadTag =>
    /\ ~Invoked("analyzeCommits") /\ ~Invoked("generateNotes") /\ RemoteCalls = <<>>
    /\ \A k \in OutputKeys \ {"previous_tag"} : ~Written(k)
    /\ pc \in {"describe", "logRange", "done"}
    /\ pc = "done" => /\ outputs = <<Out("previous_tag", loc.tag)>>
                      /\ Invoked("git log range")
                      /\ Succeeded

C3_Witness ==
  /\ OnHeadTag /\ pc = "done"
  /\ outputs = <<Out("previous_tag", S_v123)>>

(* ------------------------------------------------------------------ *)
(* C4: the effective bump is the classifier's result when present and *)
(* default_bump otherwise; when both are absent the run fails with    *)
(* "Nothing to bump" before any version, tag or changelog work.       *)
(* ------------------------------------------------------------------ *)
ClassifierReturned == Invoked("analyzeCommits") /\ failMsg # M_Classifier

C4_BumpResolution ==
  /\ ClassifierReturned =>
       loc.bump = IF loc.classified # E THEN loc.classified
                  ELSE GetInput(env, "default_bump")
  /\ ClassifierReturned /\ loc.classified = E /\ "default_bump" \notin DOMAIN env =>
       /\ failMsg = M_NothingToBump /\ exitCode = 1 /\ pc = "exited"
       /\ ~Written("new_version") /\ ~Written("new_tag") /\ ~Written("changelog")
       /\ ~Invoked("generateNotes") /\ RemoteCalls = <<>>
  /\ failMsg = M_NothingToBump =>
       loc.classified = E /\ "default_bump" \notin DOMAIN env

C4_Witness ==
  /\ failMsg = M_NothingToBump
  /\ loc.classified = E /\ "default_bump" \notin DOMAIN env

(* ------------------------------------------------------------------ *)
(* C5: previous_tag reports the tag found before the run: once tag    *)
(* discovery is over previous_tag has been written with the           *)
(* discovered tag (or 0.0.0), and a run that writes new_version has   *)
(* written previous_tag.                                              *)
(* ------------------------------------------------------------------ *)
PastTagDiscovery == Invoked("git log") \/ Invoked("git log range")

C5_PreviousTagReported ==
  /\ PastTagDiscovery => WrittenWith("previous_tag", loc.tag)
  /\ Written("new_version") => Written("previous_tag")

(* ------------------------------------------------------------------ *)
(* C6: with no existing tags the baseline tag is 0.0.0, previous_tag  *)
(* is "0.0.0", the log is taken without a tag range and the version   *)
(* increment is applied to 0.0.0.                                     *)
(* ------------------------------------------------------------------ *)
BumpResolved == ClassifierReturned /\ loc.bump # E

NoTagsBaseline ==
  /\ loc.tag = S_zero
  /\ outputs # <<>> /\ outputs[1] = Out("previous_tag", S_zero)
  /\ ~Invoked("git log range") /\ ~Invoked("git rev-list --tags")
  /\ ~Invoked("git describe --tags")

\* C6 as claimed: with no tags the increment is applied to 0.0.0 itself
C6_IncrementOfZero ==
  Invoked("git log") =>
    /\ NoTagsBaseline
    /\ BumpResolved =>
         loc.rawVersion = S_zero /\ loc.incResult = SemVerInc(S_zero, loc.bump)

Occurs(p, s) == \E i \in 1..Len(s) : SubSeq(s, i, i + Len(p) - 1) = p

\* C6 as amended: the increment is applied to 0.0.0 with the first occurrence of the
\* tag prefix removed, which is 0.0.0 when the prefix does not occur in 0.0.0
C6_IncrementOfStrippedZero ==
  Invoked("git log") =>
    /\ NoTagsBaseline
    /\ BumpResolved =>
         LET prefix == GetInput(env, "tag_prefix")
         IN /\ ~Occurs(prefix, S_zero) =>
                 /\ loc.rawVersion = S_zero
                 /\ loc.incResult = SemVerInc(S_zero, loc.bump)
                 /\ loc.incResult # E
            /\ Occurs(prefix, S_zero) =>
                 /\ \E i \in 1..Len(S_zero) :
                      /\ SubSeq(S_zero, i, i + Len(prefix) - 1) = prefix
                      /\ \A j \in 1..(i - 1) : SubSeq(S_zero, j, j + Len(prefix) - 1) # prefix
                      /\ loc.rawVersion = SubSeq(S_zero, 1, i - 1)
                                            \o SubSeq(S_zero, i + Len(prefix), Len(S_zero))
                 /\ loc.incResult = SemVerInc(loc.rawVersion, loc.bump)

C6_Witness ==
  /\ Invoked("git log") /\ BumpResolved
  /\ GetInput(env, "tag_prefix") = S_v
  /\ loc.bump = S_minor
  /\ WrittenWith("new_version", <<"0", ".", "1", ".", "0">>)

(* ------------------------------------------------------------------ *)
(* C7: new_version is the semantic-version increment, by the bump, of *)
(* the previous tag with the tag prefix stripped, followed by "-" and *)
(* the first 7 characters of the head commit exactly on a pre-release *)
(* branch; new_tag is the tag prefix followed by new_version.         *)
(* ------------------------------------------------------------------ *)
\* a leading prefix, and its removal when it is there
StartsWith(s, p) == Len(p) <= Len(s) /\ SubSeq(s, 1, Len(p)) = p

StripPrefix(s, prefix) == IF StartsWith(s, prefix) THEN Drop(s, Len(prefix)) ELSE s

C7_VersionComputation ==
  Written("new_version") =>
    LET prefix == GetInput(env, "tag_prefix")
        sha == GetInput(env, "GITHUB_SHA")
        base == SemVerInc(StripPrefix(loc.tag, prefix), loc.bump)
        expected == IF loc.preRelease THEN base \o <<"-">> \o SubSeq(sha, 1, 7) ELSE base
    IN /\ WrittenWith("new_version", expected)
       /\ WrittenWith("new_tag", prefix \o expected)

(* ------------------------------------------------------------------ *)
(* C8: the run is pre-release exactly when the branch name, the ref   *)
(* without its leading refs/heads/, matches none of the patterns of   *)
(* the comma-separated release_branches list.                         *)
(* ------------------------------------------------------------------ *)
BranchClassified == pc = "isShallow" \/ ops # <<>>

Patterns == {Split(GetInput(env, "release_branches"), <<",">>)[i] :
               i \in 1..Len(Split(GetInput(env, "release_branches"), <<",">>))}

BranchName == StripPrefix(GetInput(env, "GITHUB_REF"), S_refsHeads)

VersionWritten == Written("new_version") /\ Written("new_tag")
GatingStarted == Invoked("git tag -l") \/ Written("dry_run") \/ RemoteCalls # <<>>

\* C9 as claimed: every run that writes new_version and new_tag sets the changelog output
C9_ChangelogAlwaysSet ==
  /\ Terminated /\ VersionWritten =>
       Count("generateNotes") = 1 /\ Written("changelog")
  /\ Invoked("generateNotes") => VersionWritten
  /\ GatingStarted => Written("changelog")

\* C9 as amended: the generator is always invoked exactly once; the changelog output
\* is set exactly when the generator returns, and the run fails when it throws
C9_ChangelogSetWhenGeneratorReturns ==
  /\ Terminated /\ VersionWritten =>
       /\ Count("generateNotes") = 1
       /\ thrown # M_Generator =>
            Cardinality({i \in 1..Len(outputs) : outputs[i].key = "changelog"}) = 1
       /\ thrown = M_Generator =>
            ~Written("changelog") /\ exitCode = 1 /\ failMsg = M_Generator
  /\ Count("generateNotes") <= 1
  /\ Invoked("generateNotes") => VersionWritten
  /\ GatingStarted => Written("changelog")
  /\ Terminated /\ VersionWritten /\ loc.preRelease /\ thrown # M_Generator =>
       Written("changelog") /\ Succeeded /\ ~GatingStarted

C9_Witness ==
  /\ Succeeded /\ VersionWritten /\ loc.preRelease
  /\ WrittenWith("changelog", S_notes)
  /\ ~GatingStarted

(* ------------------------------------------------------------------ *)
(* C10: every fatal condition ends the process with status 1 through  *)
(* setFailed, after which nothing is written or invoked; every        *)
(* successful path and every benign early stop ends with status 0 and *)
(* no failure.                                                        *)
(* ------------------------------------------------------------------ *)
BlankInputs == {i \in 1..Len(InputKeys) : GetInputThrows(env, InputKeys[i])}

C10_ExitBehaviour ==
  /\ failMsg # "" <=> exitCode = 1
  /\ exitCode = 1 <=> pc = "exited"
  /\ exitCode = 0 <=> pc = "done"
  /\ Terminated => ~ENABLED Next
  \* fatal conditions
  /\ pc # "start" /\ BlankInputs # {} =>
       exitCode = 1 /\ failMsg = NoInputMsg(InputKeys[Min(BlankInputs)]) /\ ops = <<>>
  /\ pc # "start" /\ BlankInputs = {} /\ GetInput(env, "GITHUB_REF") = E =>
       exitCode = 1 /\ failMsg = M_MissingRef /\ ops = <<>>
  /\ pc # "start" /\ BlankInputs = {} /\ GetInput(env, "GITHUB_REF") # E
       /\ GetInput(env, "GITHUB_SHA") = E =>
       exitCode = 1 /\ failMsg = M_MissingSha /\ ops = <<>>
  /\ ClassifierReturned /\ loc.bump = E => exitCode = 1 /\ failMsg = M_NothingToBump
  /\ BumpResolved /\ SemVerInc(Replace(loc.tag, GetInput(env, "tag_prefix")), loc.bump) = E =>
       exitCode = 1 /\ failMsg = M_SemVerRejected
  /\ thrown # "" => exitCode = 1 /\ failMsg = thrown
  \* benign early stops and success
  /\ OnHeadTag /\ Invoked("git log range") => Succeeded
  /\ Written("changelog") /\ loc.preRelease => Succeeded
  /\ loc.tagAlreadyExists => Succeeded
  /\ Written("dry_run") => Succeeded
  /\ Terminated /\ thrown = "" /\ Invoked("createRef") => Succeeded
  /\ Terminated => Succeeded \/ exitCode = 1

C10_Witness ==
  /\ exitCode = 1 /\ failMsg = M_CreateRef /\ thrown = M_CreateRef
  /\ VersionWritten /\ Written("changelog")

(* ------------------------------------------------------------------ *)
(* C11: a run whose environment lacks GITHUB_REF or GITHUB_SHA fails  *)
(* at once: it ends with status 1 and a failure message, has executed *)
(* no version-control command, classifier, generator or remote call,  *)
(* and has set no output.  With the six inputs readable the message   *)
(* names the missing variable, GITHUB_REF first.                      *)
(* ------------------------------------------------------------------ *)
InputsReadable == \A i \in 1..Len(InputKeys) : ~GetInputThrows(cfg, InputKeys[i])

C11_MissingEnvironmentFailsAtOnce ==
  (pc # "start" /\ (GetInput(cfg, "GITHUB_REF") = E \/ GetInput(cfg, "GITHUB_SHA") = E))
    => /\ pc = "exited"
       /\ exitCode = 1
       /\ failMsg # ""
       /\ ops = <<>>
       /\ outputs = <<>>
       /\ env = cfg
       /\ InputsReadable =>
            failMsg = (IF GetInput(cfg, "GITHUB_REF") = E THEN M_MissingRef ELSE M_MissingSha)

C11_Witness ==
  /\ pc = "exited"
  /\ GetInput(cfg, "GITHUB_REF") # E
  /\ "GITHUB_SHA" \notin DOMAIN cfg
  /\ failMsg = M_MissingSha

(* ------------------------------------------------------------------ *)
(* C12: the classifier is invoked with the preset "conventionalcommits" *)
(* when the run reached it with no message_parser_preset value, and   *)
(* with the configured value otherwise.  A message_parser_preset      *)
(* stored as the empty string makes getInput throw, so such a run     *)
(* fails with the configuration error and never reaches the classifier. *)
(* ------------------------------------------------------------------ *)
ClassifierCalls == SelectSeq(ops, LAMBDA o : o.op = "analyzeCommits")

C12_PresetDefault ==
  /\ \A i \in 1..Len(ClassifierCalls) :
       ClassifierCalls[i].args =
         << IF "message_parser_preset" \in DOMAIN cfg /\ cfg["message_parser_preset"] # E
              THEN cfg["message_parser_preset"]
              ELSE S_conventionalcommits >>
  /\ (pc # "start" /\ "message_parser_preset" \in DOMAIN cfg /\ cfg["message_parser_preset"] = E)
       => (pc = "exited" /\ thrown # "" /\ failMsg = thrown /\ ops = <<>>)

C12_Witness ==
  /\ "message_parser_preset" \notin DOMAIN cfg
  /\ Len(ClassifierCalls) = 1
  /\ ClassifierCalls[1].args = <<S_conventionalcommits>>

(* ------------------------------------------------------------------ *)
(* C13: on every run in which createRef succeeded, in annotated and   *)
(* in non-annotated mode, "git fetch --tags" is executed after the    *)
(* createRef call before the run ends.                                *)
(* ------------------------------------------------------------------ *)
RefPublished == Invoked("createRef") /\ thrown = ""

C13_TagsRefetchedAfterCreateRef ==
  (Terminated /\ RefPublished)
    => \E i, j \in 1..Len(ops) :
         i < j /\ ops[i].op = "createRef" /\ ops[j].op = "git fetch --tags"
(* ------------------------------------------------------------------ *)
(* C15: the external operations of a run occur in program order, one  *)
(* after the other: shallow check, unshallow (only if the check       *)
(* answered that the repository is shallow), fetch tags, list tags,   *)
(* then with tags the most-recent-tag lookup, describe and the ranged *)
(* log, without tags the full log, then classifier, generator,        *)
(* tag-existence check and the remote calls.  Fetch tags precedes     *)
(* list tags and the tag-existence check precedes every remote call.  *)
(* ------------------------------------------------------------------ *)
AfterCreateRef(i) == \E k \in 1..(i - 1) : ops[k].op = "createRef"

OpRank(i) ==
  LET name == ops[i].op
  IN CASE name = "git rev-parse --is-shallow-repository" -> 1
       [] name = "git fetch --unshallow" -> 2
       [] name = "git fetch --tags" -> IF AfterCreateRef(i) THEN 14 ELSE 3
       [] name = "git tag" -> 4
       [] name = "pwd" -> 5
       [] name = "git rev-list --tags" -> 6
       [] name = "git describe --tags" -> 7
       [] name = "git log range" -> 8
       [] name = "git log" -> 8
       [] name = "analyzeCommits" -> 9
       [] name = "generateNotes" -> 10
       [] name = "git tag -l" -> 11
       [] name = "createTag" -> 12
       [] name = "createRef" -> 13
       [] OTHER -> 0

\* the operations that may come right before the one at position i
Predecessors(i) ==
  LET name == ops[i].op
  IN CASE name = "git fetch --unshallow" -> {"git rev-parse --is-shallow-repository"}
       [] name = "git fetch --tags" ->
            IF AfterCreateRef(i) THEN {"createRef"}
            ELSE {"git rev-parse --is-shallow-repository", "git fetch --unshallow"}
       [] name = "git tag" -> {"git fetch --tags"}
       [] name = "pwd" -> {"git tag"}
       [] name = "git rev-list --tags" -> {"pwd"}
       [] name = "git describe --tags" -> {"git rev-list --tags"}
       [] name = "git log range" -> {"git describe --tags"}
       [] name = "git log" -> {"git tag"}
       [] name = "analyzeCommits" -> {"git log range", "git log"}
       [] name = "generateNotes" -> {"analyzeCommits"}
       [] name = "git tag -l" -> {"generateNotes"}
       [] name = "createTag" -> {"git tag -l"}
       [] name = "createRef" -> {"git tag -l", "createTag"}
       [] OTHER -> {}

C15_ProgramOrder ==
  /\ \A i \in 1..Len(ops) : OpRank(i) > 0
  /\ \A i \in 1..(Len(ops) - 1) : OpRank(i) < OpRank(i + 1)
  /\ Len(ops) > 0 => ops[1].op = "git rev-parse --is-shallow-repository"
  /\ \A i \in 2..Len(ops) : ops[i - 1].op \in Predecessors(i)
  /\ Invoked("git fetch --unshallow") => Match(loc.shallow, S_true)
  /\ (Invoked("git fetch --tags") /\ ~Invoked("git fetch --unshallow"))
       => ~Match(loc.shallow, S_true)
  /\ Invoked("git rev-list --tags") => loc.hasTag
  /\ Invoked("git log") => ~loc.hasTag
  /\ \A j \in 1..Len(ops) :
       IsRemote(ops[j]) => \E i \in 1..(j - 1) : ops[i].op = "git tag -l"
  /\ \A j \in 1..Len(ops) :
       ops[j].op = "git tag" => \E i \in 1..(j - 1) : ops[i].op = "git fetch --tags"

C15_Witness ==
  /\ Terminated
  /\ Invoked("git fetch --unshallow")
  /\ Invoked("git describe --tags")
  /\ Invoked("createTag")
  /\ Count("createRef") = 1
(* ------------------------------------------------------------------ *)
(* C16 as claimed: for every ordered list of non-empty commit         *)
(* messages, rendering the log as each message followed by the        *)
(* separator, then splitting on the separator, trimming, stripping    *)
(* leading and trailing quotes and whitespace and discarding empty    *)
(* entries yields exactly the original list, in order.                *)
(* ------------------------------------------------------------------ *)
LogParsed == Invoked("analyzeCommits")

Plain(m) ==
  /\ m # E
  /\ ~IsQuoteOrSpace(m[1])
  /\ ~IsQuoteOrSpace(m[Len(m)])
  /\ IndexOf(m, SEPARATOR) = 0

Writes(key) == Cardinality({i \in 1..Len(outputs) : outputs[i].key = key})

OnReleaseBranch ==
  ~PreRelease(GetInput(cfg, "release_branches"), GetInput(cfg, "GITHUB_REF"))

StoppedForDryRun ==
  /\ Succeeded
  /\ OnReleaseBranch
  /\ Len(ops) > 0
  /\ ops[Len(ops)].op = "git tag -l"
  /\ ~loc.tagAlreadyExists
  /\ GetInput(cfg, "dry_run") = S_true

C17_OutputsWrittenOnce ==
  /\ \A i \in 1..Len(outputs) : outputs[i].key \in OutputKeys
  /\ \A key \in OutputKeys : Writes(key) <= 1
  /\ \A i \in 1..Len(outputs) : outputs[i].key = "dry_run" => outputs[i].value = S_true
  /\ Written("dry_run") => StoppedForDryRun
  /\ (Terminated /\ StoppedForDryRun) => Written("dry_run")

C17_Witness ==
  /\ StoppedForDryRun
  /\ Writes("dry_run") = 1
  /\ Writes("new_tag") = 1
  /\ Writes("changelog") = 1

(* ------------------------------------------------------------------ *)
(* C18: a run attempts each remote operation at most once.  When     *)
(* createTag fails, createRef is never attempted.  When a remote      *)
(* operation fails, the error reaches the top-level handler: the run  *)
(* is failed with the error's message, the failed call is its last    *)
(* operation (no re-fetch follows) and the outputs written before are *)
(* left as they are.                                                  *)
(* ------------------------------------------------------------------ *)
RemoteFailed == thrown \in {M_CreateTag, M_CreateRef}

C18_NoRetryAndFailurePropagation ==
  /\ Count("createTag") <= 1
  /\ Count("createRef") <= 1
  /\ thrown = M_CreateTag => ~Invoked("createRef")
  /\ RemoteFailed =>
       /\ pc = "exited"
       /\ exitCode = 1
       /\ failMsg = thrown
       /\ ops[Len(ops)].op = (IF thrown = M_CreateTag THEN "createTag" ELSE "createRef")
       /\ \A i \in 1..Len(ops) : IsRemote(ops[i]) =>
            \A j \in (i + 1)..Len(ops) : ops[j].op # "git fetch --tags"
       /\ SelectSeq(outputs, LAMBDA w : w.key # "previous_tag") =
            << Out("new_version", loc.newVersion), Out("new_tag", loc.newTag),
               Out("changelog", S_notes) >>
       /\ env["new_version"] = loc.newVersion
       /\ env["new_tag"] = loc.newTag
       /\ env["changelog"] = S_notes

C18_Witness ==
  /\ thrown = M_CreateRef
  /\ Invoked("createTag")
  /\ pc = "exited"

(* ------------------------------------------------------------------ *)
(* C19: outputs are written to the store the inputs are read from,    *)
(* yet no output write changes the value of an input: the only key    *)
(* that is both is dry_run, written only with "true" on a run whose   *)
(* dry_run input is "true".  The github_token read after the outputs  *)
(* were written sees the original value.                              *)
(* ------------------------------------------------------------------ *)
InputKeySet == {InputKeys[i] : i \in 1..Len(InputKeys)} \cup {"github_token"}

C19_OutputsLeaveInputsAlone ==
  /\ InputKeySet \cap OutputKeys = {"dry_run"}
  /\ \A k \in DOMAIN cfg : k \in DOMAIN env /\ env[k] = cfg[k]
  /\ \A k \in DOMAIN env \ DOMAIN cfg : k \in OutputKeys /\ Written(k)
  /\ \A k \in InputKeySet \cup {"GITHUB_REF", "GITHUB_SHA"} :
       GetInput(env, k) = GetInput(cfg, k) /\ (GetInputThrows(env, k) <=> GetInputThrows(cfg, k))
  /\ \A i \in 1..Len(outputs) :
       outputs[i].key \in InputKeySet =>
         /\ outputs[i] = Out("dry_run", S_true)
         /\ GetInput(cfg, "dry_run") = S_true

C19_Witness ==
  /\ WrittenWith("dry_run", S_true)
  /\ Written("new_tag")
  /\ env["dry_run"] = cfg["dry_run"]
  /\ env # cfg
(* ------------------------------------------------------------------ *)
(* C20: with every external operation returning, every run reaches a  *)
(* terminal state, either the normal return or the failure exit, and  *)
(* takes no step from it.  No operation is retried: each is invoked   *)
(* at most once in a run, except "git fetch --tags", at most twice.   *)
(* ------------------------------------------------------------------ *)
OpNames == {"git rev-parse --is-shallow-repository", "git fetch --unshallow",
            "git fetch --tags", "git tag", "pwd", "git rev-list --tags",
            "git describe --tags", "git log range", "git log", "analyzeCommits",
            "generateNotes", "git tag -l", "createTag", "createRef"}

InvokedAtMostOnce ==
  /\ \A i \in 1..Len(ops) : ops[i].op \in OpNames
  /\ \A name \in OpNames \ {"git fetch --tags"} : Count(name) <= 1
  /\ Count("git fetch --tags") <= 2

OneTerminalState ==
  /\ pc = "done" => (exitCode = 0 /\ thrown = "")
  /\ pc = "exited" => (exitCode = 1 /\ failMsg # "")
  /\ ~Terminated => exitCode = -1

C20_Termination ==
  /\ <>Terminated
  /\ [][~Terminated]_vars
  /\ [](InvokedAtMostOnce /\ OneTerminalState)

C20_Witness ==
  /\ pc = "done"
  /\ Count("git fetch --tags") = 2
  /\ Count("createRef") = 1
(* ------------------------------------------------------------------ *)
(* C14 as claimed: a second run with the same configuration and head  *)
(* commit on a release branch, with every tag reference the first run *)
(* created fetched, invokes neither createTag nor createRef and       *)
(* completes successfully; over such re-runs at most one reference is *)
(* created for a computed tag name.                                   *)
(* ------------------------------------------------------------------ *)
NoDuplicateReference ==
  \A i, j \in 1..Len(created) : i # j => created[i] # created[j]

C14_SecondRunCreatesNothing ==
  /\ NoDuplicateReference
  /\ (run = 2 /\ Terminated /\ OnReleaseBranch)
       => (RemoteCalls = <<>> /\ Succeeded)

(* ------------------------------------------------------------------ *)
(* C14 amended: the second run invokes neither createTag nor          *)
(* createRef and completes successfully when the first run created    *)
(* the tag reference; when the first run created none, the second run *)
(* may create it.  Either way at most one reference is created for a  *)
(* computed tag name.                                                 *)
(* ------------------------------------------------------------------ *)
C14_SecondRunAfterPublishedTagCreatesNothing ==
  /\ NoDuplicateReference
  /\ (run = 2 /\ first.created # <<>>) => (RemoteCalls = <<>> /\ created = first.created)
  /\ (run = 2 /\ first.created # <<>> /\ Terminated) => Succeeded

C14_Witness ==
  /\ run = 2
  /\ first.created # <<>>
  /\ Succeeded
  /\ Invoked("git tag -l")
  /\ loc.tagAlreadyExists
====
